---- MODULE Spec2Model ----
(***************************************************************************)
(* A model of blossom: the FNV hash (lib/fnv.js), the Bitfield            *)
(* (lib/bitfield.js) and the Bloom filter family of lib/bloom.js:         *)
(* BloomFilter, SafeBloomFilter, ScalingBloomFilter and                    *)
(* AttenuatedBloomFilter.                                                  *)
(*                                                                         *)
(* Representation of JavaScript values:                                    *)
(*  - a Buffer is a sequence of bytes (0..255), 1-indexed here;            *)
(*  - a 32-bit word is a record [hi, lo] of two 16-bit halves, because     *)
(*    the model checker's integers are 32-bit signed;                      *)
(*  - a real number (errorRate, ratio, slices) is a fixed-point integer:   *)
(*    errorRate in units of 1/ErrScale, ratio in units of 1/RatioScale,    *)
(*    scaling in units of 1/ScalingScale, capacity in units of 1/CapScale  *)
(*    (a capacity is capacity * scaling, which need not be an integer),    *)
(*    slices and logarithms in units of 1/Micro.                           *)
(***************************************************************************)
EXTENDS Integers, Sequences, FiniteSets, TLC

(***************************************************************************)
(* Bounds of the model.                                                    *)
(***************************************************************************)
\* keys are the decimal strings "0" .. "NumKeys-1", as in test/bloom.unit.js
NumKeys == 3
\* largest capacity given to a SafeBloomFilter constructor
MaxCapacity == 2
\* add calls made on a SafeBloomFilter beyond its capacity
MaxOverflow == 2
\* largest initialCapacity and scaling given to a ScalingBloomFilter
MaxInitialCapacity == 2
MaxScaling == 2
\* add calls made on a ScalingBloomFilter
MaxScalingAdds == 5
\* add calls made on a stand-alone BloomFilter
MaxBloomAdds == 3
\* add calls on the levels of AttenuatedBloomFilters, and merge calls
MaxAttAdds == 2
MaxMerges == 2
\* largest size given to calulateHashes by a caller of its own
MaxSize == 9
\* bytes given to one FNV object, and update calls made on it
MaxFed == 6
MaxUpdates == 3

(***************************************************************************)
(* Fixed-point scales and numeric constants of the source.                 *)
(***************************************************************************)
Micro == 1000000
ErrScale == 1000000000
RatioScale == 10
ScalingScale == 2
CapScale == 8
\* lib/bloom.js: const log2sq = 0.480453
log2sq == 480453
\* Math.log(2) = 0.693147...
MathLog2 == 693147

KeyIds == 0 .. (NumKeys - 1)

(***************************************************************************)
(* Bytes and 32-bit words.                                                 *)
(***************************************************************************)
RECURSIVE BitOr(_, _)
BitOr(a, b) ==
    IF a = 0 THEN b
    ELSE IF b = 0 THEN a
    ELSE (IF a % 2 = 1 \/ b % 2 = 1 THEN 1 ELSE 0) + 2 * BitOr(a \div 2, b \div 2)

RECURSIVE BitAnd(_, _)
BitAnd(a, b) ==
    IF a = 0 \/ b = 0 THEN 0
    ELSE (IF a % 2 = 1 /\ b % 2 = 1 THEN 1 ELSE 0) + 2 * BitAnd(a \div 2, b \div 2)

RECURSIVE BitXor(_, _)
BitXor(a, b) ==
    IF a = 0 THEN b
    ELSE IF b = 0 THEN a
    ELSE (IF (a % 2) # (b % 2) THEN 1 ELSE 0) + 2 * BitXor(a \div 2, b \div 2)

RECURSIVE Pow2(_)
Pow2(n) == IF n = 0 THEN 1 ELSE 2 * Pow2(n - 1)

Half == 65536

\* w << n on a 32-bit word, 0 <= n < 32 (the result of << is a 32-bit integer)
Shl(w, n) ==
    IF n >= 16
    THEN [hi |-> (w.lo * Pow2(n - 16)) % Half, lo |-> 0]
    ELSE [hi |-> (w.hi * Pow2(n) + (w.lo * Pow2(n)) \div Half) % Half,
          lo |-> (w.lo * Pow2(n)) % Half]

\* a + b modulo 2^32
Add32(a, b) ==
    [hi |-> (a.hi + b.hi + (a.lo + b.lo) \div Half) % Half,
     lo |-> (a.lo + b.lo) % Half]

\* w ^ byte: only the low 8 bits change
XorByte(w, byte) ==
    [hi |-> w.hi, lo |-> (w.lo \div 256) * 256 + BitXor(w.lo % 256, byte)]

\* the word modulo a positive integer m (m < 2^15)
WordMod(w, m) == ((w.hi % m) * (Half % m) + w.lo) % m

\* the word read as a signed 32-bit integer (x & 0xffffffff, x | 0)
ToInt32(w) ==
    IF w.hi >= 32768
    THEN (w.hi - Half) * Half + w.lo
    ELSE w.hi * Half + w.lo

(***************************************************************************)
(* Keys: Buffer(i.toString()) for i in KeyIds.                             *)
(***************************************************************************)
RECURSIVE ToStringBytes(_)
ToStringBytes(i) ==
    IF i < 10 THEN <<48 + i>>
    ELSE Append(ToStringBytes(i \div 10), 48 + (i % 10))

\* a key that is neither a string nor a Buffer: the number 42, written as a
\* sequence that holds no byte
NotAKey == <<0 - 42>>
NotAKeyId == 0 - 1

Key(k) == IF k = NotAKeyId THEN NotAKey ELSE ToStringBytes(k)

\* the keys 'foo' and 'bar', given to the levels of AttenuatedBloomFilters
AttKeys == {<<102, 111, 111>>, <<98, 97, 114>>}

AllKeys == {Key(k) : k \in KeyIds} \cup AttKeys

(***************************************************************************)
(* lib/fnv.js                                                              *)
(***************************************************************************)
\* constructor: this.hash = 0x811c9dc5
OffsetBasis == [hi |-> 33052, lo |-> 40389]

\* one round of update's loop: hash ^= data[i]; hash += (hash << 24) + ...
FNVRound(hash, byte) ==
    LET x == XorByte(hash, byte)
    IN  Add32(x, Add32(Shl(x, 24), Add32(Shl(x, 8),
            Add32(Shl(x, 7), Add32(Shl(x, 4), Shl(x, 1))))))

\* FNVUpdate that starts every call from the offset basis
RECURSIVE FNVFeed(_, _)
FNVFeed(hash, data) ==
    IF data = <<>> THEN hash
    ELSE FNVFeed(FNVRound(hash, Head(data)), Tail(data))

FNVUpdateFromBasis(hash, data) == FNVFeed(OffsetBasis, data)

\* update(data) for a Buffer: the state after feeding every byte in order
RECURSIVE FNVUpdate(_, _)
FNVUpdate(hash, data) ==
    IF data = <<>> THEN hash
    ELSE FNVUpdate(FNVRound(hash, Head(data)), Tail(data))

\* update(data) throws a TypeError unless data is a string or a Buffer
FNVUpdateThrows(data) == \E i \in 1 .. Len(data) : data[i] \notin 0 .. 255

\* value(): this.hash & 0xffffffff, a signed 32-bit integer
FNVValue(hash) == ToInt32(hash)

\* digest(): buf.writeInt32BE(this.hash & 0xffffffff, 0), the four bytes of the
\* 32-bit state, the high byte first
FNVDigest(hash) ==
    <<hash.hi \div 256, hash.hi % 256, hash.lo \div 256, hash.lo % 256>>

(***************************************************************************)
(* lib/bloom.js: sizing and hashing                                        *)
(***************************************************************************)
\* Math.log(x) for x = e / ErrScale, in units of 1/Micro, rounded to the nearest,
\* tabulated at the error rates the model reaches: 0.1 and 0.02, and
\* 0.1 * (1 - ratio) * ratio^g for ratio 0.9 and 0.5
MathLog(e) ==
    CASE e = 100000000 -> -2302585
      [] e = 20000000 -> -3912023
      [] e = 10000000 -> -4605170
      [] e = 9000000 -> -4710531
      [] e = 8100000 -> -4815891
      [] e = 7290000 -> -4921252
      [] e = 6561000 -> -5026612
      [] e = 5904900 -> -5131973
      [] e = 5314410 -> -5237333
      [] e = 4782969 -> -5342694
      [] e = 4304672 -> -5448054
      [] e = 50000000 -> -2995732
      [] e = 25000000 -> -3688879
      [] e = 12500000 -> -4382027
      [] e = 6250000 -> -5075174
      [] e = 3125000 -> -5768321
      [] e = 1562500 -> -6461468
      [] e = 781250 -> -7154615
      [] e = 390625 -> -7847763
      [] e = 195312 -> -8540912

\* Math.ceil(a / b) for a >= 0, b > 0
Ceil(a, b) == (a + b - 1) \div b

\* Math.ceil(capacity * Math.log(errorRate) / -log2sq)
calculateSize(capacity, errorRate) ==
    Ceil(capacity * (0 - MathLog(errorRate)), CapScale * log2sq)

\* size / capacity * Math.log(2), a real number, in units of 1/Micro
calculateSlices(size, capacity) == (size * CapScale * MathLog2) \div capacity

\* fnv(seed, data): a fresh FNV fed the seed and then the data; the result is
\* h.value() >>> 0, the unsigned reading of the 32-bit state (kept as a word)
fnv(seed, data) == FNVUpdate(FNVUpdate(OffsetBasis, seed), data)

\* Buffer.from('S'), Buffer.from('W')
SeedS == <<83>>
SeedW == <<87>>

\* the number NaN, which x % 0 gives; the positions of a filter are never
\* negative, and NaN is written here as a negative position
NaN == 0 - 1

\* the loop of calulateHashes from index i on: while i < slices, push
\* (h1 + i * h2) % size. h1 + i * h2 is exact in a double for i < 2^21, so the
\* remainder is ((h1 % size) + i * (h2 % size)) % size; x % 0 is NaN.
RECURSIVE HashLoop(_, _, _, _, _)
HashLoop(h1, h2, size, slices, i) ==
    IF i * Micro < slices
    THEN <<IF size = 0 THEN NaN
           ELSE (WordMod(h1, size) + i * WordMod(h2, size)) % size>>
             \o HashLoop(h1, h2, size, slices, i + 1)
    ELSE <<>>

\* h1 and h2 of calulateHashes: fnv(Buffer.from('S'), key) and
\* fnv(Buffer.from('W'), key)
BaseHashes(key) == [h1 |-> fnv(SeedS, key), h2 |-> fnv(SeedW, key)]

\* the same, computed once for every key the callers use
BaseHashesOf == [key \in AllKeys |-> BaseHashes(key)]

\* calulateHashes throws what h.update(seed) or h.update(data) throws, before
\* it computes any position
calulateHashesThrows(key) == FNVUpdateThrows(SeedS) \/ FNVUpdateThrows(key)

\* calulateHashes with the loop run from i = 1 to slices
calulateHashesFromOne(key, size, slices) ==
    LET h == BaseHashesOf[key]
    IN  HashLoop(h.h1, h.h2, size, slices + Micro, 1)

calulateHashes(key, size, slices) ==
    LET h == BaseHashesOf[key]
    IN  HashLoop(h.h1, h.h2, size, slices, 0)

(***************************************************************************)
(* lib/bitfield.js                                                         *)
(***************************************************************************)
\* Bitfield with Math.floor in place of Math.ceil
BitfieldFloor(number) == [buffer |-> [i \in 1 .. (number \div 8) |-> 0]]

\* constructor without a user-supplied buffer: Buffer.alloc(ceil(number / 8), 0)
Bitfield(number) == [buffer |-> [i \in 1 .. Ceil(number, 8) |-> 0]]

\* index >>> 3 and 1 << (index % 8) convert their operand to an integer, and NaN
\* converts to 0: set(NaN) and get(NaN) act on bit 0 of byte 0
ToInteger(index) == IF index = NaN THEN 0 ELSE index

\* BitfieldSet with ^= in place of |= (what toggle does)
BitfieldSetToggles(bitfield, index) ==
    LET pos == (ToInteger(index) \div 8) + 1
    IN  IF pos > Len(bitfield.buffer) THEN bitfield
        ELSE [bitfield EXCEPT !.buffer[pos] = BitXor(@, Pow2(ToInteger(index) % 8))]

\* set(index, true): buffer[index >>> 3] |= 1 << (index % 8); a write past the
\* end of a Buffer is ignored
BitfieldSet(bitfield, index) ==
    LET pos == (ToInteger(index) \div 8) + 1
    IN  IF pos > Len(bitfield.buffer) THEN bitfield
        ELSE [bitfield EXCEPT !.buffer[pos] = BitOr(@, Pow2(ToInteger(index) % 8))]

\* get(index): (buffer[index >>> 3] & (1 << (index % 8))) !== 0; a read past
\* the end gives undefined, and undefined & x is 0
BitfieldGet(bitfield, index) ==
    LET pos == (ToInteger(index) \div 8) + 1
    IN  IF pos > Len(bitfield.buffer) THEN FALSE
        ELSE BitAnd(bitfield.buffer[pos], Pow2(ToInteger(index) % 8)) # 0

(***************************************************************************)
(* lib/bloom.js: BloomFilter                                               *)
(***************************************************************************)
\* new BloomFilter(size, slices); slices is a number, kept in units of 1/Micro
BloomFilter(size, slices) ==
    [size |-> size, slices |-> slices, bitfield |-> Bitfield(size)]

RECURSIVE SetAll(_, _)
SetAll(bitfield, hashes) ==
    IF hashes = <<>> THEN bitfield
    ELSE SetAll(BitfieldSet(bitfield, Head(hashes)), Tail(hashes))

\* add(key) and has(key) call calulateHashes first, and throw what it throws
BloomThrows(filter, key) == calulateHashesThrows(key)

\* add(key): set the bit of every hash; returns this. When calulateHashes
\* throws, no bit has been written
BloomAdd(filter, key) ==
    IF BloomThrows(filter, key) THEN filter
    ELSE [filter EXCEPT !.bitfield =
             SetAll(@, calulateHashes(key, filter.size, filter.slices))]

\* has(key): false at the first hash whose bit is clear, else true
BloomHas(filter, key) ==
    LET hashes == calulateHashes(key, filter.size, filter.slices)
    IN  \A i \in 1 .. Len(hashes) : BitfieldGet(filter.bitfield, hashes[i])

(***************************************************************************)
(* lib/bloom.js: SafeBloomFilter                                           *)
(***************************************************************************)
SafeBloomFilter(capacity, errorRate) ==
    LET size == calculateSize(capacity, errorRate)
        slices == calculateSlices(size, capacity)
    IN  [capacity |-> capacity, errorRate |-> errorRate, count |-> 0,
         filter |-> BloomFilter(size, slices)]

\* SafeAdd with count > capacity in place of count >= capacity
SafeAddOffByOne(safe, key) ==
    IF safe.count * CapScale > safe.capacity
    THEN [self |-> safe, ret |-> FALSE, threw |-> FALSE]
    ELSE IF BloomThrows(safe.filter, key)
    THEN [self |-> safe, ret |-> FALSE, threw |-> TRUE]
    ELSE [self |-> [safe EXCEPT !.filter = BloomAdd(@, key),
                                !.count = @ + 1],
          ret |-> TRUE, threw |-> FALSE]

\* SafeAdd with this.filter.add(key) made before the capacity test
SafeAddBeforeTest(safe, key) ==
    IF BloomThrows(safe.filter, key)
    THEN [self |-> safe, ret |-> FALSE, threw |-> TRUE]
    ELSE IF safe.count * CapScale >= safe.capacity
    THEN [self |-> [safe EXCEPT !.filter = BloomAdd(@, key)],
          ret |-> FALSE, threw |-> FALSE]
    ELSE [self |-> [safe EXCEPT !.filter = BloomAdd(@, key),
                                !.count = @ + 1],
          ret |-> TRUE, threw |-> FALSE]

\* SafeAdd that returns true without count++ for a key the filter reports
SafeAddSkipsPresent(safe, key) ==
    IF safe.count * CapScale >= safe.capacity
    THEN [self |-> safe, ret |-> FALSE, threw |-> FALSE]
    ELSE IF BloomThrows(safe.filter, key)
    THEN [self |-> safe, ret |-> FALSE, threw |-> TRUE]
    ELSE IF BloomHas(safe.filter, key)
    THEN [self |-> safe, ret |-> TRUE, threw |-> FALSE]
    ELSE [self |-> [safe EXCEPT !.filter = BloomAdd(@, key),
                                !.count = @ + 1],
          ret |-> TRUE, threw |-> FALSE]

\* add(key): the filter after the call, the value returned, and whether the
\* call threw instead of returning (ret is then no value). A full filter
\* returns false before it looks at the key; this.filter.add(key) throws before
\* count++ is reached
SafeAdd(safe, key) ==
    IF safe.count * CapScale >= safe.capacity
    THEN [self |-> safe, ret |-> FALSE, threw |-> FALSE]
    ELSE IF BloomThrows(safe.filter, key)
    THEN [self |-> [safe EXCEPT !.filter = BloomAdd(@, key)],
          ret |-> FALSE, threw |-> TRUE]
    ELSE [self |-> [safe EXCEPT !.filter = BloomAdd(@, key),
                                !.count = @ + 1],
          ret |-> TRUE, threw |-> FALSE]

SafeThrows(safe, key) == BloomThrows(safe.filter, key)

SafeHas(safe, key) == BloomHas(safe.filter, key)

(***************************************************************************)
(* lib/bloom.js: ScalingBloomFilter                                        *)
(***************************************************************************)
\* defaults of the constructor: options.ratio || 0.9, options.scaling || 2,
\* options.initialCapacity || 1000
DefaultRatio == 9
DefaultScaling == 2 * ScalingScale
DefaultInitialCapacity == 1000 * CapScale

\* a || b for numbers: b when a is 0 (or absent, given here as 0)
OrDefault(a, b) == IF a = 0 THEN b ELSE a

\* errorRate * (1 - ratio) and errorRate * ratio on the fixed-point values
TimesOneMinusRatio(errorRate, ratio) ==
    (errorRate * (RatioScale - ratio)) \div RatioScale

TimesRatio(errorRate, ratio) == (errorRate * ratio) \div RatioScale

ScalingBloomFilter(errorRate, options) ==
    LET ratio == OrDefault(options.ratio, DefaultRatio)
        scaling == OrDefault(options.scaling, DefaultScaling)
        initialCapacity == OrDefault(options.initialCapacity, DefaultInitialCapacity)
    IN  [errorRate |-> errorRate, ratio |-> ratio, scaling |-> scaling,
         initialCapacity |-> initialCapacity,
         filters |-> <<SafeBloomFilter(initialCapacity,
                                       TimesOneMinusRatio(errorRate, ratio))>>]

\* NextGeneration with the tail's capacity, not capacity * scaling
NextGenerationSameCapacity(f, scaling, ratio) ==
    SafeBloomFilter(f.capacity, TimesRatio(f.errorRate, ratio))

\* NextGeneration with the tail's errorRate, not errorRate * ratio
NextGenerationSameErrorRate(f, scaling, ratio) ==
    SafeBloomFilter((f.capacity * scaling) \div ScalingScale, f.errorRate)

\* the sub-filter add makes when the tail rejects the key
NextGeneration(f, scaling, ratio) ==
    SafeBloomFilter((f.capacity * scaling) \div ScalingScale,
                    TimesRatio(f.errorRate, ratio))

\* add(key): f is the tail; when f.add(key) accepts, return (undefined);
\* otherwise make the next sub-filter, add the key to it, push it, return this
\* ScalingAdd that puts the new sub-filter in the place of the full tail
ScalingAddReplacesTail(sbf, key) ==
    LET n == Len(sbf.filters)
        f == sbf.filters[n]
        r == SafeAdd(f, key)
    IN  IF r.threw
        THEN [self |-> sbf, ret |-> "TypeError", threw |-> TRUE]
        ELSE IF r.ret
        THEN [self |-> [sbf EXCEPT !.filters[n] = r.self],
              ret |-> "undefined", threw |-> FALSE]
        ELSE LET g == SafeBloomFilter((f.capacity * sbf.scaling) \div ScalingScale,
                                      (f.errorRate * sbf.ratio) \div RatioScale)
                 r2 == SafeAdd(g, key)
             IN  IF r2.threw
                 THEN [self |-> sbf, ret |-> "TypeError", threw |-> TRUE]
                 ELSE [self |-> [sbf EXCEPT !.filters[n] = r2.self],
                       ret |-> "this", threw |-> FALSE]

\* ScalingAdd that pushes the new sub-filter without adding the key to it
ScalingAddPushesEmpty(sbf, key) ==
    LET n == Len(sbf.filters)
        f == sbf.filters[n]
        r == SafeAdd(f, key)
    IN  IF r.threw
        THEN [self |-> sbf, ret |-> "TypeError", threw |-> TRUE]
        ELSE IF r.ret
        THEN [self |-> [sbf EXCEPT !.filters[n] = r.self],
              ret |-> "undefined", threw |-> FALSE]
        ELSE LET g == NextGeneration(f, sbf.scaling, sbf.ratio)
             IN  [self |-> [sbf EXCEPT !.filters = Append(@, g)],
                  ret |-> "this", threw |-> FALSE]

\* threw: a call of f.add(key) threw, which ends add before anything later
\* (for the new sub-filter: before this.filters.push(f))
ScalingAdd(sbf, key) ==
    LET n == Len(sbf.filters)
        f == sbf.filters[n]
        r == SafeAdd(f, key)
    IN  IF r.threw
        THEN [self |-> [sbf EXCEPT !.filters[n] = r.self],
              ret |-> "TypeError", threw |-> TRUE]
        ELSE IF r.ret
        THEN [self |-> [sbf EXCEPT !.filters[n] = r.self],
              ret |-> "undefined", threw |-> FALSE]
        ELSE LET g == NextGeneration(f, sbf.scaling, sbf.ratio)
                 r2 == SafeAdd(g, key)
             IN  IF r2.threw
                 THEN [self |-> sbf, ret |-> "TypeError", threw |-> TRUE]
                 ELSE [self |-> [sbf EXCEPT !.filters = Append(@, r2.self)],
                       ret |-> "this", threw |-> FALSE]

\* ScalingHas looking in the last sub-filter only
ScalingHasTailOnly(sbf, key) ==
    SafeHas(sbf.filters[Len(sbf.filters)], key)

\* has(key) calls has on the last sub-filter first, and throws what it throws
ScalingThrows(sbf, key) == SafeThrows(sbf.filters[Len(sbf.filters)], key)

\* has(key): from the last sub-filter down to the first, true at the first hit
ScalingHas(sbf, key) ==
    \E i \in 1 .. Len(sbf.filters) : SafeHas(sbf.filters[i], key)

(***************************************************************************)
(* lib/bloom.js: AttenuatedBloomFilter, an Array of BloomFilters           *)
(***************************************************************************)
\* defaults of the constructor: options.bitfieldSize || 160,
\* options.filterDepth || 3; every level is new BloomFilter(bitfieldSize, 2)
DefaultBitfieldSize == 160
DefaultFilterDepth == 3
AttSlices == 2

AttenuatedBloomFilter(options) ==
    LET bitfieldSize == OrDefault(options.bitfieldSize, DefaultBitfieldSize)
        filterDepth == OrDefault(options.filterDepth, DefaultFilterDepth)
    IN  [bitfieldSize |-> bitfieldSize, filterDepth |-> filterDepth,
         levels |-> [i \in 1 .. filterDepth |->
                        BloomFilter(bitfieldSize, AttSlices * Micro)]]

\* OrBytes with ^ in place of |
XorBytes(localBuffer, foreignBytes) ==
    [bytePos \in 1 .. Len(localBuffer) |->
        IF bytePos <= Len(foreignBytes)
        THEN BitXor(localBuffer[bytePos], foreignBytes[bytePos])
        ELSE localBuffer[bytePos]]

\* OrBytes with local[bytePos] = byteValue
AssignBytes(localBuffer, foreignBytes) ==
    [bytePos \in 1 .. Len(localBuffer) |->
        IF bytePos <= Len(foreignBytes)
        THEN foreignBytes[bytePos]
        ELSE localBuffer[bytePos]]

\* OrBytes with || in place of |: a local byte that is not 0 is kept
LogicalOrBytes(localBuffer, foreignBytes) ==
    [bytePos \in 1 .. Len(localBuffer) |->
        IF bytePos <= Len(foreignBytes) /\ localBuffer[bytePos] = 0
        THEN foreignBytes[bytePos]
        ELSE localBuffer[bytePos]]

\* the inner loop of merge: for every byte of the foreign buffer,
\* local[bytePos] = local[bytePos] | byteValue; a write past the end of the
\* local Buffer is ignored
OrBytes(localBuffer, foreignBytes) ==
    [bytePos \in 1 .. Len(localBuffer) |->
        IF bytePos <= Len(foreignBytes)
        THEN BitOr(localBuffer[bytePos], foreignBytes[bytePos])
        ELSE localBuffer[bytePos]]

\* the outer loop of merge from localIndex (0-based) on. foreignFilters[localIndex - 1]
\* is undefined when the foreign array is too short, and reading its .bitfield
\* throws a TypeError before the !foreignFilters[localIndex - 1] test is reached
RECURSIVE MergeLoop(_, _, _)
MergeLoop(local, foreign, localIndex) ==
    IF localIndex >= Len(local.levels)
    THEN [self |-> local, ret |-> "this"]
    ELSE IF localIndex = 0
    THEN MergeLoop(local, foreign, localIndex + 1)
    ELSE IF localIndex - 1 >= Len(foreign.levels)
    THEN [self |-> local, ret |-> "TypeError"]
    ELSE MergeLoop(
             [local EXCEPT !.levels[localIndex + 1].bitfield.buffer =
                 OrBytes(@, foreign.levels[localIndex].bitfield.buffer)],
             foreign, localIndex + 1)

\* merge reading foreignFilters[localIndex] in place of
\* foreignFilters[localIndex - 1]
RECURSIVE MergeLoopNoShift(_, _, _)
MergeLoopNoShift(local, foreign, localIndex) ==
    IF localIndex >= Len(local.levels)
    THEN [self |-> local, ret |-> "this"]
    ELSE IF localIndex = 0
    THEN MergeLoopNoShift(local, foreign, localIndex + 1)
    ELSE IF localIndex >= Len(foreign.levels)
    THEN [self |-> local, ret |-> "TypeError"]
    ELSE MergeLoopNoShift(
             [local EXCEPT !.levels[localIndex + 1].bitfield.buffer =
                 OrBytes(@, foreign.levels[localIndex + 1].bitfield.buffer)],
             foreign, localIndex + 1)

AttMergeNoShift(local, foreign) == MergeLoopNoShift(local, foreign, 0)

\* merge(foreignFilters): the local set after the call and the value returned
\* (or the error thrown)
AttMerge(local, foreign) == MergeLoop(local, foreign, 0)

(***************************************************************************)
(* Snapshots: JSON.parse(JSON.stringify(f)) and the destringify methods;   *)
(* toHexArray and AttenuatedBloomFilter.from.                              *)
(***************************************************************************)
\* a Buffer in JSON: { type: 'Buffer', data: [bytes] }
BufferToJSON(buffer) == [type |-> "Buffer", data |-> buffer]

\* Buffer.from(value) for the JSON form of a Buffer: a new Buffer of its bytes
BufferFrom(value) ==
    IF value.type = "Buffer"
    THEN [i \in 1 .. Len(value.data) |-> value.data[i] % 256]
    ELSE <<>>

\* JSON.parse(JSON.stringify(f)): the enumerable fields of f, numbers as they are
BloomToJSON(filter) ==
    [size |-> filter.size, slices |-> filter.slices,
     bitfield |-> [buffer |-> BufferToJSON(filter.bitfield.buffer)]]

SafeToJSON(filter) ==
    [capacity |-> filter.capacity, errorRate |-> filter.errorRate,
     count |-> filter.count, filter |-> BloomToJSON(filter.filter)]

ScalingToJSON(filter) ==
    [errorRate |-> filter.errorRate, ratio |-> filter.ratio,
     scaling |-> filter.scaling, initialCapacity |-> filter.initialCapacity,
     filters |-> [i \in 1 .. Len(filter.filters) |-> SafeToJSON(filter.filters[i])]]

\* BloomFilter.destringify(data)
BloomDestringify(data) ==
    LET filter == BloomFilter(data.size, data.slices)
    IN  [filter EXCEPT !.bitfield.buffer = BufferFrom(data.bitfield.buffer)]

\* SafeDestringify that leaves count as the constructor set it
SafeDestringifyResetsCount(data) ==
    LET filter == SafeBloomFilter(data.capacity, data.errorRate)
    IN  [filter EXCEPT !.filter.bitfield.buffer =
                           BufferFrom(data.filter.bitfield.buffer)]

\* SafeBloomFilter.destringify(data)
SafeDestringify(data) ==
    LET filter == SafeBloomFilter(data.capacity, data.errorRate)
    IN  [filter EXCEPT !.count = data.count,
                       !.filter.bitfield.buffer =
                           BufferFrom(data.filter.bitfield.buffer)]

\* ScalingDestringify that keeps the constructor's single empty generation
ScalingDestringifyFresh(data) ==
    ScalingBloomFilter(data.errorRate,
        [ratio |-> data.ratio, scaling |-> data.scaling,
         initialCapacity |-> data.initialCapacity])

\* ScalingBloomFilter.destringify(data)
ScalingDestringify(data) ==
    LET filter == ScalingBloomFilter(data.errorRate,
                      [ratio |-> data.ratio, scaling |-> data.scaling,
                       initialCapacity |-> data.initialCapacity])
    IN  [filter EXCEPT !.filters =
            [i \in 1 .. Len(data.filters) |-> SafeDestringify(data.filters[i])]]

\* buffer.toString('hex'): two hexadecimal digits for every byte, the high one
\* first; a hex string is written as the sequence of its digits' values
BufferToHex(buffer) ==
    [i \in 1 .. (2 * Len(buffer)) |->
        IF i % 2 = 1 THEN buffer[(i + 1) \div 2] \div 16
        ELSE buffer[i \div 2] % 16]

\* Buffer.from(hexString, 'hex'): one byte for every two digits
BufferFromHex(hexString) ==
    [i \in 1 .. (Len(hexString) \div 2) |->
        16 * hexString[2 * i - 1] + hexString[2 * i]]

\* toHexArray(): the hex string of every level's buffer, in level order
AttToHexArray(filters) ==
    [i \in 1 .. Len(filters.levels) |->
        BufferToHex(filters.levels[i].bitfield.buffer)]

\* AttenuatedBloomFilter.from(hexFilters): bitfieldSize is eight times the byte
\* length of the first string, filterDepth the number of strings
AttFrom(hexFilters) ==
    LET filters == AttenuatedBloomFilter(
                       [bitfieldSize |-> Len(BufferFromHex(hexFilters[1])) * 8,
                        filterDepth |-> Len(hexFilters)])
    IN  [filters EXCEPT !.levels =
            [i \in 1 .. Len(hexFilters) |->
                [filters.levels[i] EXCEPT !.bitfield.buffer =
                    BufferFromHex(hexFilters[i])]]]

(***************************************************************************)
(* The state: one filter object of one variant, driven by its callers.     *)
(* added, rets and last record what the callers did and got.               *)
(***************************************************************************)
VARIABLES
    variant,   \* which class the object under test is
    bloom,     \* a BloomFilter
    safe,      \* a SafeBloomFilter
    sbf,       \* a ScalingBloomFilter
    att,       \* AttenuatedBloomFilters: the local set A and the peer B
    hasher,    \* an FNV object: its hash, and the bytes and update calls it was given
    twin,      \* <<g>> once g was rebuilt from a snapshot of the object, else <<>>
    levelAdds, \* the number of add calls made on levels of A and B
    added,     \* the keys whose add returned (for a SafeBloomFilter: returned true)
    rets,      \* the value each call that returned gave (merge: or threw), in call order
    last       \* the last call; again: it repeats the merge made just before it

vars ==
    <<variant, bloom, safe, sbf, att, hasher, twin, levelAdds, added, rets, last>>

Absent == <<>>
NoCall ==
    [op |-> "none", target |-> "", level |-> 0, key |-> 0, again |-> FALSE,
     threw |-> FALSE]

\* constructor arguments the callers give
BloomSizes == {0, 8, 16}
MaxSlices == 2
ErrorRates == {100000000, 20000000}
DefaultErrorRate == 100000000
Ratios == {0, 5}
\* scaling absent (0), or 1, 1.5, 2, ... up to MaxScaling
Scalings == {0} \cup (ScalingScale .. (MaxScaling * ScalingScale))
Capacities == {c * CapScale : c \in 1 .. MaxCapacity}
InitialCapacities == {c * CapScale : c \in 1 .. MaxInitialCapacity}
AttSizes == {8, 12}
LocalSizes == {12}
SetNames == {"A", "B"}
PeerNames == {"B"}
\* the keys given to add, and the keys given to has
AddKeyIds == KeyIds \cup {NotAKeyId}
HasKeyIds == {NotAKeyId}

InitHistory ==
    /\ hasher = Absent
    /\ twin = <<>>
    /\ levelAdds = 0
    /\ added = {}
    /\ rets = <<>>
    /\ last = NoCall

InitBloom ==
    /\ variant = "bloom"
    /\ \E size \in BloomSizes, slices \in 0 .. MaxSlices :
           bloom = BloomFilter(size, slices * Micro)
    /\ safe = Absent
    /\ sbf = Absent
    /\ att = Absent
    /\ InitHistory

InitSafe ==
    /\ variant = "safe"
    /\ \E capacity \in Capacities, errorRate \in ErrorRates :
           safe = SafeBloomFilter(capacity, errorRate)
    /\ bloom = Absent
    /\ sbf = Absent
    /\ att = Absent
    /\ InitHistory

InitScaling ==
    /\ variant = "scaling"
    /\ \E ratio \in Ratios, scaling \in Scalings,
          initialCapacity \in InitialCapacities :
           sbf = ScalingBloomFilter(DefaultErrorRate,
                     [ratio |-> ratio, scaling |-> scaling,
                      initialCapacity |-> initialCapacity])
    /\ bloom = Absent
    /\ safe = Absent
    /\ att = Absent
    /\ InitHistory

\* the local set A has the default depth; the peer B has any depth up to the
\* default and any size
InitAtt ==
    /\ variant = "att"
    /\ \E size \in LocalSizes, sizeB \in AttSizes, depthB \in 1 .. DefaultFilterDepth :
           att = [A |-> AttenuatedBloomFilter(
                            [bitfieldSize |-> size, filterDepth |-> 0]),
                  B |-> AttenuatedBloomFilter(
                            [bitfieldSize |-> sizeB, filterDepth |-> depthB])]
    /\ bloom = Absent
    /\ safe = Absent
    /\ sbf = Absent
    /\ InitHistory

\* bloom.add(Key(k)), and the same call on the rebuilt filter when there is one
BloomAddCall(k) ==
    /\ variant = "bloom"
    /\ Len(rets) < MaxBloomAdds \/ BloomThrows(bloom, Key(k))
    /\ LET threw == BloomThrows(bloom, Key(k))
       IN  /\ bloom' = BloomAdd(bloom, Key(k))
           /\ added' = IF threw THEN added ELSE added \cup {k}
           /\ rets' = IF threw THEN rets ELSE Append(rets, "this")
           /\ last' = [op |-> "add", target |-> "bloom", level |-> 0, key |-> k,
                        again |-> FALSE, threw |-> threw]
    /\ twin' = [i \in 1 .. Len(twin) |-> BloomAdd(twin[i], Key(k))]
    /\ UNCHANGED <<hasher, variant, safe, sbf, att, levelAdds>>

\* safe.add(Key(k))
SafeAddCall(k) ==
    /\ variant = "safe"
    /\ \/ Len(rets) * CapScale < safe.capacity + MaxOverflow * CapScale
       \/ SafeAdd(safe, Key(k)).threw
    /\ LET r == SafeAdd(safe, Key(k))
       IN  /\ safe' = r.self
           /\ added' = IF r.ret THEN added \cup {k} ELSE added
           /\ rets' = IF r.threw THEN rets ELSE Append(rets, r.ret)
           /\ last' = [op |-> "add", target |-> "safe", level |-> 0, key |-> k,
                        again |-> FALSE, threw |-> r.threw]
    /\ twin' = [i \in 1 .. Len(twin) |-> SafeAdd(twin[i], Key(k)).self]
    /\ UNCHANGED <<hasher, variant, bloom, sbf, att, levelAdds>>

\* sbf.add(Key(k)); the callers take their keys in order, as the tests do: a key
\* not given before is the next one, Key(number of keys given so far)
ScalingAddCall(k) ==
    /\ variant = "scaling"
    /\ k <= Cardinality(added)
    /\ Len(rets) < MaxScalingAdds \/ ScalingAdd(sbf, Key(k)).threw
    /\ LET r == ScalingAdd(sbf, Key(k))
       IN  /\ sbf' = r.self
           /\ added' = IF r.threw THEN added ELSE added \cup {k}
           /\ rets' = IF r.threw THEN rets ELSE Append(rets, r.ret)
           /\ last' = [op |-> "add", target |-> "sbf", level |-> 0, key |-> k,
                        again |-> FALSE, threw |-> r.threw]
    /\ twin' = [i \in 1 .. Len(twin) |-> ScalingAdd(twin[i], Key(k)).self]
    /\ UNCHANGED <<hasher, variant, bloom, safe, att, levelAdds>>

\* bloom.has(Key(k)), safe.has(Key(k)), sbf.has(Key(k)): has writes nothing
BloomHasCall(k) ==
    /\ variant = "bloom"
    /\ last' = [op |-> "has", target |-> "bloom", level |-> 0, key |-> k,
                 again |-> FALSE, threw |-> BloomThrows(bloom, Key(k))]
    /\ UNCHANGED <<hasher, variant, bloom, safe, sbf, att, twin, levelAdds, added, rets>>

SafeHasCall(k) ==
    /\ variant = "safe"
    /\ last' = [op |-> "has", target |-> "safe", level |-> 0, key |-> k,
                 again |-> FALSE, threw |-> SafeThrows(safe, Key(k))]
    /\ UNCHANGED <<hasher, variant, bloom, safe, sbf, att, twin, levelAdds, added, rets>>

ScalingHasCall(k) ==
    /\ variant = "scaling"
    /\ last' = [op |-> "has", target |-> "sbf", level |-> 0, key |-> k,
                 again |-> FALSE, threw |-> ScalingThrows(sbf, Key(k))]
    /\ UNCHANGED <<hasher, variant, bloom, safe, sbf, att, twin, levelAdds, added, rets>>

\* g = X.destringify(JSON.parse(JSON.stringify(f))) for the object f
BloomDestringifyCall ==
    /\ variant = "bloom"
    /\ twin = <<>>
    /\ twin' = <<BloomDestringify(BloomToJSON(bloom))>>
    /\ last' = [NoCall EXCEPT !.op = "destringify", !.target = "bloom"]
    /\ UNCHANGED <<hasher, variant, bloom, safe, sbf, att, levelAdds, added, rets>>

SafeDestringifyCall ==
    /\ variant = "safe"
    /\ twin = <<>>
    /\ twin' = <<SafeDestringify(SafeToJSON(safe))>>
    /\ last' = [NoCall EXCEPT !.op = "destringify", !.target = "safe"]
    /\ UNCHANGED <<hasher, variant, bloom, safe, sbf, att, levelAdds, added, rets>>

ScalingDestringifyCall ==
    /\ variant = "scaling"
    /\ twin = <<>>
    /\ twin' = <<ScalingDestringify(ScalingToJSON(sbf))>>
    /\ last' = [NoCall EXCEPT !.op = "destringify", !.target = "sbf"]
    /\ UNCHANGED <<hasher, variant, bloom, safe, sbf, att, levelAdds, added, rets>>

\* att[t][level].add(key): the callers add to a level's BloomFilter directly
AttAddCall(t, level, key) ==
    /\ variant = "att"
    /\ levelAdds < MaxAttAdds
    /\ level < Len(att[t].levels)
    /\ att' = [att EXCEPT ![t].levels[level + 1] = BloomAdd(@, key)]
    /\ levelAdds' = levelAdds + 1
    /\ last' = [NoCall EXCEPT !.op = "add", !.target = t]
    /\ UNCHANGED <<hasher, variant, bloom, safe, sbf, twin, added, rets>>

\* att.A.merge(att[p])
AttMergeCall(p) ==
    /\ variant = "att"
    /\ Len(rets) < MaxMerges
    /\ LET r == AttMerge(att.A, att[p])
       IN  /\ att' = [att EXCEPT !.A = r.self]
           /\ rets' = Append(rets, r.ret)
    /\ last' = [NoCall EXCEPT !.op = "merge", !.target = p,
                              !.again = (last.op = "merge" /\ last.target = p)]
    /\ UNCHANGED <<hasher, variant, bloom, safe, sbf, twin, levelAdds, added>>

\* g = AttenuatedBloomFilter.from(att[t].toHexArray())
AttFromCall(t) ==
    /\ variant = "att"
    /\ twin = <<>>
    /\ twin' = <<AttFrom(AttToHexArray(att[t]))>>
    /\ last' = [NoCall EXCEPT !.op = "from", !.target = t]
    /\ UNCHANGED <<hasher, variant, bloom, safe, sbf, att, levelAdds, added, rets>>

Init == InitBloom \/ InitSafe \/ InitScaling

Next ==
    \/ \E k \in AddKeyIds : BloomAddCall(k)
    \/ \E k \in AddKeyIds : SafeAddCall(k)
    \/ \E k \in AddKeyIds : ScalingAddCall(k)
    \/ \E k \in HasKeyIds : BloomHasCall(k)
    \/ \E k \in HasKeyIds : SafeHasCall(k)
    \/ \E k \in HasKeyIds : ScalingHasCall(k)
    \/ BloomDestringifyCall
    \/ SafeDestringifyCall
    \/ ScalingDestringifyCall

\* a BloomFilter, a SafeBloomFilter or a ScalingBloomFilter and its callers
Spec == Init /\ [][Next]_vars

NextAtt ==
    \/ \E t \in SetNames, level \in 0 .. (DefaultFilterDepth - 1), key \in AttKeys :
           AttAddCall(t, level, key)
    \/ \E p \in PeerNames : AttMergeCall(p)
    \/ \E t \in PeerNames : AttFromCall(t)

\* two AttenuatedBloomFilters and their callers
SpecAtt == InitAtt /\ [][NextAtt]_vars

\* a caller of calulateHashes(key, size, slices) alone
InitHashes ==
    /\ variant = "hashes"
    /\ bloom = Absent
    /\ safe = Absent
    /\ sbf = Absent
    /\ att = Absent
    /\ InitHistory

calulateHashesCall(key, size, slices) ==
    /\ variant = "hashes"
    /\ rets' = <<calulateHashes(key, size, slices * Micro)>>
    /\ last' = [op |-> "calulateHashes", key |-> key, size |-> size,
                 slices |-> slices]
    /\ UNCHANGED <<hasher, variant, bloom, safe, sbf, att, twin, levelAdds, added>>

NextHashes ==
    \E key \in AllKeys, size \in 1 .. MaxSize, slices \in 0 .. MaxSlices :
        calulateHashesCall(key, size, slices)

SpecHashes == InitHashes /\ [][NextHashes]_vars

\* Two local sets built alike, att.A and twin[1], and two peers att.B and att.C
\* built alike: the callers add keys to levels, then att.A merges one peer and
\* then the other while twin[1] merges them in the other order
OrderPeers == {"B", "C"}
OrderNames == {"A"} \cup OrderPeers

InitOrder ==
    /\ variant = "order"
    /\ \E size \in LocalSizes, sizeP \in AttSizes, depthP \in 1 .. DefaultFilterDepth :
           LET local == AttenuatedBloomFilter(
                            [bitfieldSize |-> size, filterDepth |-> 0])
               peer == AttenuatedBloomFilter(
                            [bitfieldSize |-> sizeP, filterDepth |-> depthP])
           IN  /\ att = [A |-> local, B |-> peer, C |-> peer]
               /\ twin = <<local>>
    /\ hasher = Absent
    /\ bloom = Absent
    /\ safe = Absent
    /\ sbf = Absent
    /\ levelAdds = 0
    /\ added = {}
    /\ rets = <<>>
    /\ last = NoCall

\* att[t].filters[level].add(key) before any merge; an add on A is made on
\* twin[1] too
OrderAddCall(t, level, key) ==
    /\ variant = "order"
    /\ rets = <<>>
    /\ levelAdds < MaxAttAdds
    /\ level < Len(att[t].levels)
    /\ att' = [att EXCEPT ![t].levels[level + 1] = BloomAdd(@, key)]
    /\ twin' = IF t = "A"
               THEN <<[twin[1] EXCEPT !.levels[level + 1] = BloomAdd(@, key)]>>
               ELSE twin
    /\ levelAdds' = levelAdds + 1
    /\ last' = [NoCall EXCEPT !.op = "add", !.target = t]
    /\ UNCHANGED <<hasher, variant, bloom, safe, sbf, added, rets>>

\* att.A.merge(att[p]) while twin[1] merges the other peer; the second call
\* takes the peer the first did not. A merge that throws keeps the levels it
\* wrote before
OrderMergeCall(p) ==
    /\ variant = "order"
    /\ rets = <<>> \/ (Len(rets) = 1 /\ last.target # p)
    /\ LET q == CHOOSE other \in OrderPeers : other # p
           r == AttMerge(att.A, att[p])
       IN  /\ att' = [att EXCEPT !.A = r.self]
           /\ twin' = <<AttMerge(twin[1], att[q]).self>>
           /\ rets' = Append(rets, r.ret)
    /\ last' = [NoCall EXCEPT !.op = "merge", !.target = p]
    /\ UNCHANGED <<hasher, variant, bloom, safe, sbf, levelAdds, added>>

NextOrder ==
    \/ \E t \in OrderNames, level \in 0 .. (DefaultFilterDepth - 1), key \in AttKeys :
           OrderAddCall(t, level, key)
    \/ \E p \in OrderPeers : OrderMergeCall(p)

SpecOrder == InitOrder /\ [][NextOrder]_vars

\* an FNV object and the caller of its update: h = new FNV(); h.update(data)...
Chunks ==
    {<<>>, <<97>>, <<102, 111, 111>>, <<98, 97, 114>>, <<0>>, <<255>>, NotAKey}

InitFNV ==
    /\ variant = "fnv"
    /\ hasher = [hash |-> OffsetBasis, fed |-> <<>>, updates |-> 0]
    /\ bloom = Absent
    /\ safe = Absent
    /\ sbf = Absent
    /\ att = Absent
    /\ twin = <<>>
    /\ levelAdds = 0
    /\ added = {}
    /\ rets = <<>>
    /\ last = NoCall

\* h.update(data): a TypeError leaves the hash as it was
FNVUpdateCall(data) ==
    /\ variant = "fnv"
    /\ hasher.updates < MaxUpdates
    /\ IF FNVUpdateThrows(data)
       THEN /\ hasher' = [hasher EXCEPT !.updates = @ + 1]
            /\ last' = [NoCall EXCEPT !.op = "update", !.threw = TRUE]
       ELSE /\ Len(hasher.fed) + Len(data) <= MaxFed
            /\ hasher' = [hash |-> FNVUpdate(hasher.hash, data),
                          fed |-> hasher.fed \o data,
                          updates |-> hasher.updates + 1]
            /\ last' = [NoCall EXCEPT !.op = "update"]
    /\ UNCHANGED <<variant, bloom, safe, sbf, att, twin, levelAdds, added, rets>>

NextFNV == \E data \in Chunks : FNVUpdateCall(data)

SpecFNV == InitFNV /\ [][NextFNV]_vars

\* every variant and its callers
InitAll == Init \/ InitAtt
NextAll == Next \/ NextAtt
SpecAll == InitAll /\ [][NextAll]_vars

(***************************************************************************)
(* Properties of BloomFilter, SafeBloomFilter and ScalingBloomFilter,      *)
(* checked under Spec.                                                     *)
(***************************************************************************)
TailFilter(sbfilter) == sbfilter.filters[Len(sbfilter.filters)]
LastRet == rets[Len(rets)]
\* an add call has just been made: rets grew by one
AddStep == Len(rets') = Len(rets) + 1

\* C1: no false negatives. Every key whose add returned on a BloomFilter (size
\* and slices at least 1), and every key whose add returned true on a
\* SafeBloomFilter, is reported by has in every later state.
C1_NoFalseNegatives ==
    /\ (variant = "bloom" /\ bloom.size >= 1 /\ bloom.slices >= Micro) =>
           \A k \in added : BloomHas(bloom, Key(k))
    /\ variant = "safe" => \A k \in added : SafeHas(safe, Key(k))

\* a BloomFilter holding two keys that still reports some other key absent
C1_Witness ==
    /\ variant = "bloom"
    /\ Cardinality(added) >= 2
    /\ \E k \in KeyIds \ added : ~BloomHas(bloom, Key(k))

\* C2: no false negatives across growth. Every key passed to
\* ScalingBloomFilter.add is reported by has in every later state, whatever
\* generation holds it.
C2_NoFalseNegativesAcrossGrowth ==
    variant = "scaling" => \A k \in added : ScalingHas(sbf, Key(k))

\* three generations, and an added key that the last generation does not report
C2_Witness ==
    /\ variant = "scaling"
    /\ Len(sbf.filters) >= 3
    /\ \E k \in added : ~SafeHas(TailFilter(sbf), Key(k))

\* C3: capacity enforcement. On a fresh SafeBloomFilter of capacity C the i-th
\* add call returns true exactly when i <= C.
C3_CapacityEnforcement ==
    variant = "safe" =>
        \A i \in 1 .. Len(rets) : rets[i] = (i * CapScale <= safe.capacity)

\* a filter of capacity 2 or more after two calls beyond its capacity
C3_Witness ==
    /\ variant = "safe"
    /\ safe.capacity >= 2 * CapScale
    /\ Len(rets) * CapScale >= safe.capacity + 2 * CapScale

\* C4: a rejected add changes nothing. When SafeBloomFilter.add returns false,
\* count and every byte of the buffer are as before the call, and has answers
\* as before for every key.
C4_RejectedAddChangesNothing ==
    [][(variant = "safe" /\ AddStep /\ rets'[Len(rets')] = FALSE) =>
          /\ safe'.count = safe.count
          /\ safe'.filter.bitfield.buffer = safe.filter.bitfield.buffer
          /\ \A x \in KeyIds : SafeHas(safe', Key(x)) = SafeHas(safe, Key(x))]_vars

\* a rejected add of a key that was never added and is still reported absent
C4_Witness ==
    /\ variant = "safe"
    /\ rets # <<>>
    /\ LastRet = FALSE
    /\ last.op = "add"
    /\ last.key \in KeyIds \ added
    /\ ~SafeHas(safe, Key(last.key))

\* C5: the count invariant. In every state 0 <= count <= capacity, for a
\* SafeBloomFilter and for every sub-filter of a ScalingBloomFilter.
C5_CountWithinCapacity ==
    /\ variant = "safe" =>
           safe.count >= 0 /\ safe.count * CapScale <= safe.capacity
    /\ variant = "scaling" =>
           \A i \in 1 .. Len(sbf.filters) :
               /\ sbf.filters[i].count >= 0
               /\ sbf.filters[i].count * CapScale <= sbf.filters[i].capacity

\* C * (1 + s + ... + s^(g-1)), the keys g generations hold, for integers C, s
RECURSIVE TotalCapacity(_, _, _)
TotalCapacity(C, s, g) ==
    IF g = 0 THEN 0 ELSE C + s * TotalCapacity(C, s, g - 1)

\* the least g with C * (1 + s + ... + s^(g-1)) >= n, for n >= 1
LeastGenerations(C, s, n) ==
    CHOOSE g \in 1 .. n :
        /\ TotalCapacity(C, s, g) >= n
        /\ \A h \in 1 .. (g - 1) : TotalCapacity(C, s, h) < n

IntegerScaling == sbf.scaling % ScalingScale = 0

\* C6: scaling growth. With initialCapacity C and an integer scaling s >= 1,
\* after the n-th add (n >= 1) filters.length is the least g with
\* C * (1 + s + ... + s^(g-1)) >= n, and the call appended a generation exactly
\* when the tail was full before it.
C6_ScalingGrowth ==
    [][(variant = "scaling" /\ IntegerScaling /\ AddStep) =>
          /\ Len(sbf'.filters) =
                 LeastGenerations(sbf.initialCapacity \div CapScale,
                                  sbf.scaling \div ScalingScale, Len(rets'))
          /\ Len(sbf'.filters) =
                 Len(sbf.filters) +
                     (IF TailFilter(sbf).count * CapScale >= TailFilter(sbf).capacity
                      THEN 1 ELSE 0)]_vars

\* initialCapacity 1 and scaling 2: the fourth add opens the third generation
C6_Witness ==
    /\ variant = "scaling"
    /\ sbf.initialCapacity = CapScale
    /\ sbf.scaling = 2 * ScalingScale
    /\ Len(rets) = 4
    /\ Len(sbf.filters) = 3

\* C7: ScalingBloomFilter.add returns the filter itself on every call.
C7_AddReturnsThis ==
    variant = "scaling" => \A i \in 1 .. Len(rets) : rets[i] = "this"

\* g was rebuilt from a snapshot in this step
DestringifyStep == twin = <<>> /\ Len(twin') = 1

\* the BloomFilters g and f have the same size, slices and buffer, and has
\* answers the same on both for every key
SameBloom(g, f) ==
    /\ g.size = f.size
    /\ g.slices = f.slices
    /\ g.bitfield.buffer = f.bitfield.buffer
    /\ \A x \in KeyIds : BloomHas(g, Key(x)) = BloomHas(f, Key(x))

SameSafe(g, f) ==
    /\ g.capacity = f.capacity
    /\ g.count = f.count
    /\ SameBloom(g.filter, f.filter)

\* C11: round trip of structural snapshots. For a BloomFilter, SafeBloomFilter
\* or ScalingBloomFilter f reached by add calls, destringify of the parsed JSON
\* of f has the size, slices, count, capacity, generation list and buffers of
\* f, and has agrees with f on every key, added or not.
C11_SnapshotRoundTrip ==
    [][DestringifyStep =>
          /\ variant = "bloom" => SameBloom(twin'[1], bloom)
          /\ variant = "safe" => SameSafe(twin'[1], safe)
          /\ variant = "scaling" =>
                 /\ Len(twin'[1].filters) = Len(sbf.filters)
                 /\ \A i \in 1 .. Len(sbf.filters) :
                        SameSafe(twin'[1].filters[i], sbf.filters[i])
                 /\ \A x \in KeyIds :
                        ScalingHas(twin'[1], Key(x)) = ScalingHas(sbf, Key(x))]_vars

\* a SafeBloomFilter that holds a key and reports another absent was just rebuilt
C11_Witness ==
    /\ variant = "safe"
    /\ last.op = "destringify"
    /\ Len(twin) = 1
    /\ twin[1].count >= 1
    /\ \E x \in added : SafeHas(twin[1], Key(x))
    /\ \E x \in KeyIds \ added : ~SafeHas(twin[1], Key(x))

\* C12: a rebuilt filter continues like the original. With g rebuilt from a
\* snapshot of a SafeBloomFilter or ScalingBloomFilter f, every later add gives
\* on g the value it gives on f, and leaves the same count in every sub-filter
\* and the same filters.length.
C12_RebuiltContinuesAlike ==
    [][(Len(twin) = 1 /\ AddStep) =>
          /\ variant = "safe" =>
                 /\ SafeAdd(twin[1], Key(last'.key)).ret = rets'[Len(rets')]
                 /\ twin'[1].count = safe'.count
          /\ variant = "scaling" =>
                 /\ ScalingAdd(twin[1], Key(last'.key)).ret = rets'[Len(rets')]
                 /\ Len(twin'[1].filters) = Len(sbf'.filters)
                 /\ \A i \in 1 .. Len(sbf'.filters) :
                        twin'[1].filters[i].count = sbf'.filters[i].count]_vars

\* the rebuilt ScalingBloomFilter has just been given its third generation
C12_Witness ==
    /\ variant = "scaling"
    /\ Len(twin) = 1
    /\ last.op = "add"
    /\ ~last.threw
    /\ LastRet = "this"
    /\ Len(twin[1].filters) = 3
    /\ twin[1].filters[2].count >= 1

\* the object under test: its fields, sub-filters and buffers
Object ==
    CASE variant = "bloom" -> bloom
      [] variant = "safe" -> safe
      [] variant = "scaling" -> sbf
      [] OTHER -> att

\* C14: type violation. add or has called with a key that is neither a Buffer
\* nor a string throws, in every state of a BloomFilter, a SafeBloomFilter (full
\* or not) and a ScalingBloomFilter (tail full or not), and leaves bits, count
\* and the generation list as they were.
C14_NotAKeyThrows ==
    [][(last'.op \in {"add", "has"} /\ last'.key = NotAKeyId
            /\ last'.target \in {"bloom", "safe", "sbf"}) =>
          /\ last'.threw
          /\ Object' = Object
          /\ rets' = rets]_vars

\* C15: precondition validation. No BloomFilter with size 0 or slices 0 reaches
\* a state in which add has returned normally: constructing or using it fails.
C15_DegenerateFilterFails ==
    (variant = "bloom" /\ (bloom.size = 0 \/ bloom.slices = 0)) => rets = <<>>

\* C17: geometric generations. In every state of a ScalingBloomFilter built by
\* its constructor and add, generation 0 has capacity initialCapacity and, for
\* consecutive generations, capacity(i+1) = capacity(i) * scaling and
\* errorRate(i+1) = errorRate(i) * ratio (to the last digit the error rate keeps).
C17_GeometricGenerations ==
    variant = "scaling" =>
        /\ sbf.filters[1].capacity = sbf.initialCapacity
        /\ \A i \in 1 .. (Len(sbf.filters) - 1) :
               LET f == sbf.filters[i]
                   g == sbf.filters[i + 1]
               IN  /\ g.capacity * ScalingScale = f.capacity * sbf.scaling
                   /\ g.errorRate * RatioScale <= f.errorRate * sbf.ratio
                   /\ f.errorRate * sbf.ratio < (g.errorRate + 1) * RatioScale

\* three generations with scaling 1.5 and ratio 0.5
C17_Witness ==
    /\ variant = "scaling"
    /\ Len(sbf.filters) = 3
    /\ sbf.scaling * 2 = 3 * ScalingScale
    /\ sbf.ratio * 2 = RatioScale
    /\ sbf.filters[3].capacity > sbf.filters[2].capacity

\* C18: append-only generations, tail-only writes. ScalingBloomFilter.add keeps
\* every generation in place; it changes the count or bits of the tail only, or
\* else of no generation and appends one; filters.length never decreases and
\* grows by at most one.
C18_AppendOnlyTailOnly ==
    [][(variant = "scaling" /\ last'.op = "add") =>
          LET n == Len(sbf.filters)
          IN  /\ Len(sbf'.filters) \in {n, n + 1}
              /\ \A i \in 1 .. (n - 1) : sbf'.filters[i] = sbf.filters[i]
              /\ Len(sbf'.filters) = n + 1 => sbf'.filters[n] = sbf.filters[n]
              /\ sbf'.filters[n].capacity = sbf.filters[n].capacity
              /\ sbf'.filters[n].count >= sbf.filters[n].count]_vars

\* an add has just filled a second generation that follows a full first one
C18_Witness ==
    /\ variant = "scaling"
    /\ last.op = "add"
    /\ ~last.threw
    /\ LastRet = "undefined"
    /\ Len(sbf.filters) = 2
    /\ sbf.filters[2].count = 2
    /\ sbf.filters[1].count * CapScale = sbf.filters[1].capacity

(***************************************************************************)
(* Properties of AttenuatedBloomFilter.merge, checked under SpecAtt.       *)
(***************************************************************************)
\* a merge call has just been made: in SpecAtt only merge appends to rets
MergeStep == variant = "att" /\ Len(rets') = Len(rets) + 1

\* bit by bit, the buffer of after is the OR of the buffers of before and peer
\* (a bit past the end of a buffer reads as 0)
IsOrOf(after, before, peer) ==
    /\ Len(after.bitfield.buffer) = Len(before.bitfield.buffer)
    /\ \A bit \in 0 .. (8 * Len(before.bitfield.buffer) - 1) :
           BitfieldGet(after.bitfield, bit) =
               (BitfieldGet(before.bitfield, bit) \/ BitfieldGet(peer.bitfield, bit))

\* C8: the level-shifted merge. When the peer has the depth and the bitfield
\* size of the local set A, A.merge(peer) returns normally, leaves level 0 of A
\* as it was and makes every level i >= 1 of A the OR of its buffer and the
\* peer's level i-1.
C8_LevelShiftedMerge ==
    [][(/\ MergeStep
        /\ Len(att[last'.target].levels) = Len(att.A.levels)
        /\ att[last'.target].bitfieldSize = att.A.bitfieldSize) =>
          /\ rets'[Len(rets')] = "this"
          /\ Len(att'.A.levels) = Len(att.A.levels)
          /\ att'.A.levels[1] = att.A.levels[1]
          /\ \A i \in 1 .. (Len(att.A.levels) - 1) :
                 IsOrOf(att'.A.levels[i + 1], att.A.levels[i + 1],
                        att[last'.target].levels[i])]_vars

\* the only add was made on level 0 of a peer B of the depth and size of A;
\* after A.merge(B) level 1 of A reports the key and level 0 of A does not
C8_Witness ==
    /\ variant = "att"
    /\ last.op = "merge"
    /\ last.target = "B"
    /\ att.B.filterDepth = att.A.filterDepth
    /\ att.B.bitfieldSize = att.A.bitfieldSize
    /\ levelAdds = 1
    /\ \E key \in AttKeys :
           /\ BloomHas(att.B.levels[1], key)
           /\ BloomHas(att.A.levels[2], key)
           /\ ~BloomHas(att.A.levels[1], key)

\* C9: merge with a shorter peer. When the peer has fewer levels than A,
\* A.merge(peer) returns normally, having OR-ed the levels i >= 1 of A for which
\* the peer has a level i-1 and left every other level of A as it was.
C9_ShorterPeerReturnsNormally ==
    [][(MergeStep /\ Len(att[last'.target].levels) < Len(att.A.levels)) =>
          /\ rets'[Len(rets')] = "this"
          /\ att'.A.levels[1] = att.A.levels[1]
          /\ \A i \in 1 .. (Len(att.A.levels) - 1) :
                 IF i <= Len(att[last'.target].levels)
                 THEN IsOrOf(att'.A.levels[i + 1], att.A.levels[i + 1],
                             att[last'.target].levels[i])
                 ELSE att'.A.levels[i + 1] = att.A.levels[i + 1]]_vars

\* g was built by from in this step
FromStep == variant = "att" /\ twin = <<>> /\ Len(twin') = 1

\* C13: round trip of the attenuated wire format. For a set A of any
\* bitfieldSize and filterDepth, from(A.toHexArray()) has the filterDepth, the
\* bitfieldSize and the level buffers of A, and has answers on each of its
\* levels as on the same level of A, for every key.
C13_HexRoundTrip ==
    [][FromStep =>
          LET A == att[last'.target]
              g == twin'[1]
          IN  /\ g.filterDepth = A.filterDepth
              /\ g.bitfieldSize = A.bitfieldSize
              /\ Len(g.levels) = Len(A.levels)
              /\ \A i \in 1 .. Len(A.levels) :
                     /\ g.levels[i].bitfield.buffer = A.levels[i].bitfield.buffer
                     /\ \A x \in AttKeys :
                            BloomHas(g.levels[i], x) = BloomHas(A.levels[i], x)]_vars

\* C10: idempotent merge. A.merge(peer) made right after A.merge(peer) leaves A
\* as the first call left it, and ends as the first call ended.
C10_IdempotentMerge ==
    [][(MergeStep /\ last'.again) =>
          /\ att'.A = att.A
          /\ rets'[Len(rets')] = rets[Len(rets)]]_vars

\* A.merge(peer) was made twice in a row, and level 1 of A holds a key that
\* only level 0 of the peer was given
C10_Witness ==
    /\ variant = "att"
    /\ last.op = "merge"
    /\ last.again
    /\ levelAdds = 1
    /\ \E key \in AttKeys :
           /\ BloomHas(att[last.target].levels[1], key)
           /\ BloomHas(att.A.levels[2], key)
           /\ ~BloomHas(att.A.levels[1], key)

(***************************************************************************)
(* Properties of every BloomFilter, whatever owns it, checked under        *)
(* SpecAll.                                                                *)
(***************************************************************************)
\* the BloomFilters of the object under test and of the object rebuilt from it
FiltersOf(variantName, object) ==
    CASE variantName = "bloom" -> <<object>>
      [] variantName = "safe" -> <<object.filter>>
      [] variantName = "scaling" ->
             [i \in 1 .. Len(object.filters) |-> object.filters[i].filter]
      [] OTHER -> object.levels

ObjectFilters ==
    IF variant = "att"
    THEN att.A.levels \o att.B.levels
    ELSE FiltersOf(variant, Object)

TwinFilters == IF twin = <<>> THEN <<>> ELSE FiltersOf(variant, twin[1])

AllFilters == ObjectFilters \o TwinFilters

\* the positions of the 1-bits of a filter's buffer
OneBits(filter) ==
    {bit \in 0 .. (8 * Len(filter.bitfield.buffer) - 1) :
        BitfieldGet(filter.bitfield, bit)}

\* every 1-bit of the filter before is a 1-bit of the filter after: byte by
\* byte, before & after = before
KeepsOneBits(before, after) ==
    /\ Len(after.bitfield.buffer) >= Len(before.bitfield.buffer)
    /\ \A j \in 1 .. Len(before.bitfield.buffer) :
           BitAnd(before.bitfield.buffer[j], after.bitfield.buffer[j])
               = before.bitfield.buffer[j]

\* C16: monotonic fill. No add and no merge clears a set bit: for every
\* BloomFilter, alone, inside a SafeBloomFilter or a ScalingBloomFilter, or a
\* level of an AttenuatedBloomFilter, the 1-bits after a step include the
\* 1-bits before it.
C16_MonotonicFill ==
    [][/\ \A i \in 1 .. Len(ObjectFilters) :
              /\ i <= Len(ObjectFilters')
              /\ KeepsOneBits(ObjectFilters[i], ObjectFilters'[i])
       /\ \A i \in 1 .. Len(TwinFilters) :
              /\ i <= Len(TwinFilters')
              /\ KeepsOneBits(TwinFilters[i], TwinFilters'[i])]_vars

\* a merge has just given level 1 of A a key next to the key it held
C16_Witness ==
    /\ variant = "att"
    /\ last.op = "merge"
    /\ \E x \in AttKeys, y \in AttKeys :
           /\ x # y
           /\ BloomHas(att.A.levels[2], x)
           /\ BloomHas(att.A.levels[2], y)
           /\ ~BloomHas(att[last.target].levels[1], y)
           /\ Cardinality(OneBits(att.A.levels[2])) >= 3

RECURSIVE TimesPow2Mod(_, _, _)
TimesPow2Mod(r, n, m) ==
    IF n = 0 THEN r % m ELSE TimesPow2Mod((2 * r) % m, n - 1, m)

\* the unsigned value hi * 2^16 + lo of a 32-bit word, modulo m
UnsignedMod(w, m) == (TimesPow2Mod(w.hi, 16, m) + w.lo) % m

\* C20: index derivation. For an integer size >= 1 and an integer slices >= 0,
\* calulateHashes(key, size, slices) returns exactly slices positions, the i-th
\* (from 0) being (h1 + i * h2) mod size for the unsigned 32-bit FNV hashes h1
\* of 'S' ++ key and h2 of 'W' ++ key, each an integer in [0, size).
C20_IndexDerivation ==
    (variant = "hashes" /\ rets # <<>>) =>
        LET hashes == rets[1]
            h1 == FNVUpdate(OffsetBasis, SeedS \o last.key)
            h2 == FNVUpdate(OffsetBasis, SeedW \o last.key)
        IN  /\ Len(hashes) = last.slices
            /\ \A i \in 0 .. (Len(hashes) - 1) :
                   /\ hashes[i + 1] \in 0 .. (last.size - 1)
                   /\ hashes[i + 1] =
                          (UnsignedMod(h1, last.size)
                              + i * UnsignedMod(h2, last.size)) % last.size

\* two different positions of 'bar' in a size of 9
C20_Witness ==
    /\ variant = "hashes"
    /\ rets # <<>>
    /\ last.key = <<98, 97, 114>>
    /\ last.size = 9
    /\ Len(rets[1]) = 2
    /\ rets[1][1] # rets[1][2]

(***************************************************************************)
(* Properties of FNV, checked under SpecFNV.                               *)
(***************************************************************************)
\* the hex digits of 811c9dc5 and of bf9cf968
HexOffsetBasis == <<8, 1, 1, 12, 9, 13, 12, 5>>
HexFoobar == <<11, 15, 9, 12, 15, 9, 6, 8>>
Foobar == <<102, 111, 111, 98, 97, 114>>

\* C22: streaming hash equals one-shot hash. A fresh FNV given its input in
\* any number of update calls ends in the 32-bit state and the digest of a
\* fresh FNV given the concatenation in one call ('foo' then 'bar' gives
\* bf9cf968, as 'foobar' does); with no input, or the empty input, the state is
\* the offset basis 0x811c9dc5.
C22_StreamingEqualsOneShot ==
    variant = "fnv" =>
        /\ hasher.hash = FNVUpdate(OffsetBasis, hasher.fed)
        /\ FNVDigest(hasher.hash) = FNVDigest(FNVUpdate(OffsetBasis, hasher.fed))
        /\ hasher.fed = <<>> =>
               /\ hasher.hash = OffsetBasis
               /\ BufferToHex(FNVDigest(hasher.hash)) = HexOffsetBasis
        /\ hasher.fed = Foobar =>
               BufferToHex(FNVDigest(hasher.hash)) = HexFoobar

\* 'foobar' was given in two update calls that both gave bytes
C22_Witness ==
    /\ variant = "fnv"
    /\ hasher.fed = Foobar
    /\ hasher.updates = 2
    /\ BufferToHex(FNVDigest(hasher.hash)) = HexFoobar

\* C23: value() is an unsigned 32-bit integer: it is in [0, 2^32) and is the
\* big-endian unsigned reading of the four bytes of digest().
C23_ValueIsUnsigned ==
    variant = "fnv" =>
        LET value == FNVValue(hasher.hash)
            digest == FNVDigest(hasher.hash)
        IN  /\ value >= 0
            /\ value \div Half = digest[1] * 256 + digest[2]
            /\ value % Half = digest[3] * 256 + digest[4]

(***************************************************************************)
(* Fill of the generations and of a capacity-bounded filter, under Spec.   *)
(***************************************************************************)
\* C24: older generations are full. In every state of a ScalingBloomFilter
\* built by its constructor and add, with an integer initialCapacity >= 1 and
\* an integer scaling >= 1, every sub-filter but the last has count = capacity,
\* and once there is more than one sub-filter the last has count >= 1.
C24_OlderGenerationsFull ==
    (/\ variant = "scaling"
     /\ IntegerScaling
     /\ sbf.scaling >= ScalingScale
     /\ sbf.initialCapacity % CapScale = 0
     /\ sbf.initialCapacity >= CapScale) =>
        /\ \A i \in 1 .. (Len(sbf.filters) - 1) :
               sbf.filters[i].count * CapScale = sbf.filters[i].capacity
        /\ Len(sbf.filters) > 1 => TailFilter(sbf).count >= 1

\* initialCapacity 1 and scaling 2 after five adds: generations of 1, 2 and 2
\* keys, the third of capacity 4
C24_Witness ==
    /\ variant = "scaling"
    /\ sbf.scaling = 2 * ScalingScale
    /\ Len(sbf.filters) = 3
    /\ sbf.filters[1].count = 1
    /\ sbf.filters[2].count = 2
    /\ sbf.filters[2].capacity = 2 * CapScale
    /\ TailFilter(sbf).count = 2
    /\ TailFilter(sbf).capacity = 4 * CapScale

\* the add calls so far that returned true
AcceptedAdds == Cardinality({i \in 1 .. Len(rets) : rets[i]})

\* C25: repeated keys consume capacity. In a SafeBloomFilter count is always
\* the number of add calls that returned true, whether or not their keys were
\* distinct; an add of a key that is already present, made while
\* count < capacity, returns true, increments count by one and leaves every
\* byte of the buffer as it was.
C25_RepeatedKeysConsumeCapacity ==
    /\ [](variant = "safe" => safe.count = AcceptedAdds)
    /\ [][(/\ variant = "safe"
           /\ last'.op = "add"
           /\ last'.key \in KeyIds
           /\ SafeHas(safe, Key(last'.key))
           /\ safe.count * CapScale < safe.capacity) =>
              /\ AddStep
              /\ rets'[Len(rets')] = TRUE
              /\ safe'.count = safe.count + 1
              /\ safe'.filter.bitfield.buffer = safe.filter.bitfield.buffer]_vars

\* one key added twice to a filter of capacity 2, which is now full
C25_Witness ==
    /\ variant = "safe"
    /\ safe.capacity = 2 * CapScale
    /\ Cardinality(added) = 1
    /\ safe.count = 2
    /\ rets = <<TRUE, TRUE>>

(***************************************************************************)
(* The order of two merges, checked under SpecOrder.                       *)
(***************************************************************************)
\* C21: merge order does not matter. For a local set A and two peers B and C
\* of one depth and one bitfield size, the state of A after A.merge(B) then
\* A.merge(C) is the state of A after A.merge(C) then A.merge(B).
C21_MergeOrder ==
    (variant = "order" /\ Len(rets) = 2) => att.A = twin[1]

\* B and C have the depth and the size of A and level 0 of each was given a
\* key the other does not report; after both merges level 1 of A reports both
C21_Witness ==
    /\ variant = "order"
    /\ Len(rets) = 2
    /\ att.B.filterDepth = att.A.filterDepth
    /\ att.B.bitfieldSize = att.A.bitfieldSize
    /\ \E keyB \in AttKeys, keyC \in AttKeys :
           /\ BloomHas(att.B.levels[1], keyB)
           /\ ~BloomHas(att.C.levels[1], keyB)
           /\ BloomHas(att.C.levels[1], keyC)
           /\ ~BloomHas(att.B.levels[1], keyC)
           /\ BloomHas(att.A.levels[2], keyB)
           /\ BloomHas(att.A.levels[2], keyC)

====
